---- MODULE Spec2Model ----
(***************************************************************************)
(* DelegateEase: the delegation operation engine.                          *)
(*                                                                         *)
(* Three batch processors live in the repository:                          *)
(*   "ops"    processBatchOperations / processDelegateOperation            *)
(*            (utils/gmail-integration.ts)                                 *)
(*   "script" processBatch of app/api/delegates/route.ts, whose add and    *)
(*            remove run createDelegate.ts / deleteDelegate.ts as a child  *)
(*            process and read its stdout / stderr                         *)
(*   "direct" processBatch of the direct-API route (addDelegateDirectly,   *)
(*            removeDelegateDirectly)                                      *)
(* and one form handler, useDelegateFormHandler, with the confirmation     *)
(* gate and the batch parser.                                              *)
(*                                                                         *)
(* Strings are sequences of one-character strings, so that split, trim and *)
(* includes are computed as JavaScript computes them.  An action is the    *)
(* code between two awaits on the remote service; the answer of the remote *)
(* service to a call is chosen by the environment.                         *)
(***************************************************************************)
EXTENDS Integers, Sequences, FiniteSets, TLC

VARIABLES
    impl,               \* which batch processor runs the batch
    operations,         \* the batch: the array handed to the processor
    idx,                \* position of the for..of loop (1-based)
    pc,                 \* where the processor stands
    results,            \* the results array
    remote,             \* remote service: mailbox -> set of delegate emails
    calls,              \* log of the calls made to the remote service
    gmail,              \* the mailbox the current Gmail client impersonates, or Null
    ui, di,             \* child script: positions in userEmailArray / delegateEmailArray
    scriptErr,          \* child script: something was written with console.error
    stdoutErr,          \* child script: stdout holds the word "Error"
    expWarn,            \* node writes an ExperimentalWarning to the child's stderr
    envFailed,          \* history: the environment has answered a call with a failure
    ioLog,              \* history: the local file operations that failed, and for which request
    remote0,            \* history: the remote service before the first batch
    tmp,                \* the temporary files: path -> the caller whose data it holds
    now,                \* the clock read by Date.now()
    proc,               \* concurrent addDelegate calls: caller -> where it stands
    serviceAccountFile, \* the uploaded key file, or Null
    operation,          \* form state (useState) ...
    userEmail,
    delegateEmail,
    batchMode,
    batchEmails,
    isSubmitting,
    showConfirmation,
    formData,           \* the FormData handed to onSubmit, or NoFormData
    response,           \* the response of POST, or NoResponse
    shownFor,           \* history: the request set the confirmation was asked for
    confirmationUsed,   \* history: a submission has passed the gate on the confirmation
    lines,              \* the parser alone: the lines of the text handed to it
    parsed,             \* the parser alone: what parseBatchOperations returned
    raced,              \* the requests an external actor got in between check and act
    cancelledAt,        \* the last request started when the caller disconnected, or -1
    run1,               \* the first of two runs of a batch, or NoRun
    resent              \* the submissions sent while another one was in flight

concVars == <<now, proc>>
envVars == <<lines, parsed, raced, cancelledAt, run1, resent>>
engineVars == <<impl, operations, idx, pc, results, remote, calls, gmail, ui, di,
                scriptErr, stdoutErr, expWarn, envFailed, ioLog, remote0, tmp, concVars,
                envVars>>
formVars == <<operation, userEmail, delegateEmail, batchMode, batchEmails,
              isSubmitting, showConfirmation, formData, response, shownFor,
              confirmationUsed>>
vars == <<engineVars, serviceAccountFile, formVars>>

----------------------------------------------------------------------------
(* Bounds of the model *)

\* longest batch handed directly to a batch processor
MaxBatch == 3
\* most lines of a batch text typed into the form
MaxLines == 2
\* the callers running addDelegate at the same time, and the clock's last value
MaxCallers == 2
MaxTick == 2

----------------------------------------------------------------------------
(* Strings *)

Null == <<"null">>
Undefined == <<"undefined">>
Empty == <<>>

kList == <<"l", "i", "s", "t">>
kAdd == <<"a", "d", "d">>
kRemove == <<"r", "e", "m", "o", "v", "e">>
kBogus == <<"p", "u", "t">>
kError == <<"E", "r", "r", "o", "r">>
Comma == <<",">>
Newline == <<"\n">>
Space == <<" ">>

M1 == <<"m", "1">>
M2 == <<"m", "2">>
D1 == <<"d", "1">>
D2 == <<"d", "2">>

\* the mailboxes the service identity may impersonate, and the delegates they may get
Mailboxes == {M1, M2}
Delegates == {D1, D2}

IsWs(c) == c \in {" ", "\t", "\r", "\n"}

RECURSIVE TrimStart(_)
TrimStart(s) ==
    IF s # <<>> /\ IsWs(Head(s)) THEN TrimStart(Tail(s)) ELSE s

RECURSIVE TrimEnd(_)
TrimEnd(s) ==
    IF s # <<>> /\ IsWs(s[Len(s)]) THEN TrimEnd(SubSeq(s, 1, Len(s) - 1)) ELSE s

\* String.prototype.trim
Trim(s) == TrimEnd(TrimStart(s))

\* String.prototype.split with a one-character separator: always at least one piece
RECURSIVE SplitFrom(_, _, _)
SplitFrom(s, sep, cur) ==
    IF s = <<>> THEN <<cur>>
    ELSE IF Head(s) = sep THEN <<cur>> \o SplitFrom(Tail(s), sep, <<>>)
    ELSE SplitFrom(Tail(s), sep, Append(cur, Head(s)))

Split(s, sep) == SplitFrom(s, sep, <<>>)

\* String.prototype.includes
Includes(s, sub) ==
    \E i \in 1..(Len(s) - Len(sub) + 1) : SubSeq(s, i, i + Len(sub) - 1) = sub

\* Array.prototype.map / filter on sequences
RECURSIVE MapTrim(_)
MapTrim(xs) ==
    IF xs = <<>> THEN <<>> ELSE <<Trim(Head(xs))>> \o MapTrim(Tail(xs))

RECURSIVE FilterNonBlank(_)
FilterNonBlank(xs) ==
    IF xs = <<>> THEN <<>>
    ELSE IF Trim(Head(xs)) # <<>> THEN <<Head(xs)>> \o FilterNonBlank(Tail(xs))
    ELSE FilterNonBlank(Tail(xs))

\* JavaScript truthiness of a string-or-undefined value
Truthy(s) == s # Undefined /\ s # Null /\ s # <<>>

\* xs[i], or undefined past the end (array destructuring)
At(xs, i) == IF i <= Len(xs) THEN xs[i] ELSE Undefined

----------------------------------------------------------------------------
(* The remote service: ListDelegates, CreateDelegate, DeleteDelegate *)

\* the answers a call may get; a call for a mailbox the identity cannot
\* impersonate, or with no delegate email, is always refused
ProbeOutcomes(m) == IF m \in Mailboxes THEN {"ok", "error"} ELSE {"error"}
ListOutcomes(m) == IF m \in Mailboxes THEN {"ok", "error"} ELSE {"error"}
MutateOutcomes(m, d) ==
    IF m \in Mailboxes /\ d \in Delegates THEN {"ok", "error"} ELSE {"error"}

\* a variant of DelegatesOf in which a second run is served the delegates the
\* first run left behind
DelegatesOf_cached(m) ==
    IF m \in Mailboxes THEN (IF run1 = [none |-> TRUE] THEN remote[m] ELSE run1.remote[m])
    ELSE {}

\* the delegates of mailbox m
DelegatesOf(m) == IF m \in Mailboxes THEN remote[m] ELSE {}

\* remote state after create / delete answered `out`
RemoteCreate(m, d, out) ==
    IF out = "ok" THEN [remote EXCEPT ![m] = @ \cup {d}] ELSE remote
RemoteDelete(m, d, out) ==
    IF out = "ok" THEN [remote EXCEPT ![m] = @ \ {d}] ELSE remote

\* a variant of NewClient in which a client that exists is used again
NewClient_reused(m) == IF gmail # Null THEN gmail ELSE m

\* createGmailClient(key, userEmail): a JWT client with subject userEmail; its
\* calls have userId "me", the impersonated mailbox
NewClient(m) == m

\* an entry of the log: the call made for request `req`, and its answer
Call(ep, m, d, out) == [ep |-> ep, user |-> m, delegate |-> d, req |-> idx, out |-> out]

----------------------------------------------------------------------------
(* Requests and results *)

\* a result without a delegates array
NoDelegates == {}

Req(op, m, d) == [operation |-> op, userEmail |-> m, delegateEmail |-> d]

\* a null element of a JSON array of requests
NullOp == [null |-> TRUE]

\* an OperationResult; `req` is history: the position of the request it was made for
Res(succ, m, d, op, msg, dels) ==
    [success |-> succ, userEmail |-> m, delegateEmail |-> d, operation |-> op,
     message |-> msg, delegates |-> dels, req |-> idx]

CurOp == operations[idx]

\* a variant of IsListRequest in which no request is taken for a list request
IsListRequest_never == FALSE

\* operation === "list": the request is answered with the list call alone
IsListRequest == CurOp.operation = kList

\* a variant of Push in which a failed result is not pushed
Push_dropFailed(r) ==
    /\ results' = IF r.success THEN Append(results, r) ELSE results
    /\ idx' = idx + 1
    /\ pc' = "dispatch"

\* a variant of Push in which the loop goes on before the result is there
Push_noResult(r) ==
    /\ results' = results
    /\ idx' = idx + 1
    /\ pc' = "dispatch"

\* results.push(r), then the loop goes to its next element
Push(r) ==
    /\ results' = Append(results, r)
    /\ idx' = idx + 1
    /\ pc' = "dispatch"

\* a variant of SkipRequest in which the construction of the client is tried again
SkipRequest_retry(r) ==
    /\ pc' = "client"
    /\ UNCHANGED <<idx, results>>

\* no client for this request: its failed result is pushed and the loop continues
SkipRequest(r) == Push(r)

scriptVars == <<ui, di, scriptErr, stdoutErr>>

\* what an engine step never touches
EngineFrame ==
    UNCHANGED <<impl, operations, expWarn, remote0, serviceAccountFile, formVars, concVars,
                envVars>>

----------------------------------------------------------------------------
(* Temporary files *)

\* the caller of the batch
Self == 1

\* the copy of the key made by POST (sa_<uuid>.json), the copy made by
\* processDelegateOperation (sa_<time>_<random>.json), and the parameter file of
\* addDelegate / removeDelegate (params_<time>.json)
SaPath == <<"sa", 0>>
SaCopyPath == <<"sa_copy", 0>>
ParamsPath(t) == <<"params", t>>

NoFiles == [q \in {} |-> Self]

\* writeFile(f, data of caller p) and unlink(f)
WriteFile(t, f, p) == [q \in DOMAIN t \cup {f} |-> IF q = f THEN p ELSE t[q]]
Unlink(t, f) == [q \in DOMAIN t \ {f} |-> t[q]]

\* a variant of Finally in which the file is removed only after a success
Finally_onSuccess(f) ==
    tmp' = IF pc' = "dispatch" /\ results'[Len(results')].success
           THEN Unlink(tmp, f) ELSE tmp

\* the finally block around a request: when the request returns (the loop is back
\* at its head) the file has been unlinked
Finally(f) == tmp' = IF pc' = "dispatch" THEN Unlink(tmp, f) ELSE tmp

\* history: the environment answered `out`; a failure other than an answer of the
\* remote service is a failed local file operation
Env(out) ==
    /\ envFailed' = (envFailed \/ out # "ok")
    /\ ioLog' = IF out \in {"io_error", "key_error"} THEN Append(ioLog, <<idx, out>>) ELSE ioLog

----------------------------------------------------------------------------
(* "ops": utils/gmail-integration.ts *)

\* processBatchOperations without a file: one failed result per operation
processBatchOperations_nofile ==
    /\ impl = "ops" /\ pc = "dispatch" /\ idx = 1 /\ results = <<>>
    /\ serviceAccountFile = Null
    /\ results' = [i \in 1..Len(operations) |->
                     [success |-> FALSE,
                      userEmail |-> operations[i].userEmail,
                      delegateEmail |-> operations[i].delegateEmail,
                      operation |-> operations[i].operation,
                      message |-> "Service account file is required",
                      delegates |-> NoDelegates, req |-> i]]
    /\ idx' = Len(operations) + 1
    /\ pc' = "done"
    /\ UNCHANGED <<remote, calls, scriptVars, tmp>>
    /\ UNCHANGED <<envFailed, ioLog>>
    /\ UNCHANGED gmail
    /\ EngineFrame

\* the for..of loop of processBatchOperations
processBatchOperations_loop ==
    /\ impl = "ops" /\ pc = "dispatch"
    /\ serviceAccountFile # Null
    /\ pc' = IF idx > Len(operations) THEN "done" ELSE "client"
    /\ UNCHANGED <<idx, results, remote, calls, scriptVars, tmp>>
    /\ UNCHANGED <<envFailed, ioLog>>
    /\ UNCHANGED gmail
    /\ EngineFrame

\* the result of processDelegateOperation when createGmailClient returned null
OpsClientFailed ==
    Res(FALSE, CurOp.userEmail, CurOp.delegateEmail, CurOp.operation,
        "Failed to create Gmail client", NoDelegates)

\* processDelegateOperation up to createGmailClient: the temporary copy of the key
\* is written and read back (either may throw), then the client is built and
\* probed with getAccessToken and getProfile
processDelegateOperation_client ==
    /\ impl = "ops" /\ pc = "client"
    /\ \E out \in {"io_error"} \cup ProbeOutcomes(NewClient(CurOp.userEmail)) :
         /\ Env(out)
         /\ CASE out = "io_error" ->
                   /\ SkipRequest(Res(FALSE, CurOp.userEmail, CurOp.delegateEmail,
                                      CurOp.operation, "io error", NoDelegates))
                   /\ UNCHANGED calls
              [] out = "error" ->
                   /\ calls' = Append(calls, Call("probe", NewClient(CurOp.userEmail), Undefined, out))
                   /\ SkipRequest(OpsClientFailed)
              [] out = "ok" ->
                   /\ calls' = Append(calls, Call("probe", NewClient(CurOp.userEmail), Undefined, out))
                   /\ pc' = "list"
                   /\ UNCHANGED <<idx, results>>
         /\ tmp' = IF out = "ok" THEN WriteFile(tmp, SaCopyPath, Self) ELSE tmp
         /\ gmail' = IF out = "ok" THEN NewClient(CurOp.userEmail) ELSE gmail
    /\ UNCHANGED <<remote, scriptVars>>
    /\ EngineFrame

\* listDelegates of gmail-integration.ts: the result carries operation "list" and
\* no userEmail
OpsListResult(out, m) ==
    IF out = "ok"
    THEN Res(TRUE, Undefined, Undefined, kList, "Delegates retrieved successfully",
             DelegatesOf(m))
    ELSE Res(FALSE, Undefined, Undefined, kList, "remote error", NoDelegates)

\* the guard of processDelegateOperation: what follows a successful list for an
\* operation other than "list"; "go" lets the mutation through
OpsGuard(op, exists) ==
    IF op = kAdd THEN (IF exists THEN "already exists" ELSE "go")
    ELSE IF op = kRemove THEN (IF exists THEN "go" ELSE "does not exist")
    ELSE "Invalid operation"

\* processDelegateOperation: listDelegates, then the existence check
processDelegateOperation_list ==
    /\ impl = "ops" /\ pc = "list"
    /\ \E out \in ListOutcomes(gmail) :
         /\ Env(out)
         /\ LET m == CurOp.userEmail
                d == CurOp.delegateEmail
                g == OpsGuard(CurOp.operation, d \in DelegatesOf(gmail))
            IN  /\ calls' = Append(calls, Call("list", gmail, Undefined, out))
                /\ IF IsListRequest \/ out # "ok"
                   THEN Push(OpsListResult(out, gmail))
                   ELSE IF g = "go"
                   THEN pc' = "mutate" /\ UNCHANGED <<idx, results>>
                   ELSE Push(Res(FALSE, m, d, CurOp.operation, g, NoDelegates))
    /\ Finally(SaCopyPath)
    /\ UNCHANGED <<remote, scriptVars>>
    /\ UNCHANGED gmail
    /\ EngineFrame

\* processDelegateOperation: delegates.create / delegates.delete; an error thrown
\* by the call is caught by the outer catch
processDelegateOperation_mutate ==
    /\ impl = "ops" /\ pc = "mutate"
    /\ \E out \in MutateOutcomes(gmail, CurOp.delegateEmail) :
         /\ Env(out)
         /\ LET m == CurOp.userEmail
                d == CurOp.delegateEmail
                add == CurOp.operation = kAdd
            IN  /\ calls' = Append(calls, Call(IF add THEN "create" ELSE "delete", gmail, d, out))
                /\ remote' = IF add THEN RemoteCreate(gmail, d, out) ELSE RemoteDelete(gmail, d, out)
                /\ Push(IF out = "ok"
                        THEN Res(TRUE, m, d, CurOp.operation,
                                 IF add THEN "added successfully" ELSE "removed successfully",
                                 NoDelegates)
                        ELSE Res(FALSE, m, d, CurOp.operation, "remote error", NoDelegates))
    /\ Finally(SaCopyPath)
    /\ UNCHANGED scriptVars
    /\ UNCHANGED gmail
    /\ EngineFrame

OpsNext ==
    \/ processBatchOperations_nofile
    \/ processBatchOperations_loop
    \/ processDelegateOperation_client
    \/ processDelegateOperation_list
    \/ processDelegateOperation_mutate

----------------------------------------------------------------------------
(* "direct": processBatch of the direct-API route *)

\* the for..of loop of processBatch
directBatch_loop ==
    /\ impl = "direct" /\ pc = "dispatch"
    /\ pc' = IF idx > Len(operations) THEN "done" ELSE "client"
    /\ UNCHANGED <<idx, results, remote, calls, scriptVars, tmp>>
    /\ UNCHANGED <<envFailed, ioLog>>
    /\ UNCHANGED gmail
    /\ EngineFrame

\* the result pushed when createGmailClient returned null
DirectClientFailed ==
    Res(FALSE, CurOp.userEmail, Undefined, CurOp.operation,
        "Failed to create Gmail client", NoDelegates)

\* createGmailClient of a route: the key is read from the temporary file and the
\* JWT client is built; nothing is asked of the remote service
directBatch_client ==
    /\ impl = "direct" /\ pc = "client"
    /\ \E out \in {"ok", "io_error"} :
         /\ Env(out)
         /\ IF out = "io_error" THEN SkipRequest(DirectClientFailed)
            ELSE IF CurOp.operation \in {kList, kAdd, kRemove}
            THEN pc' = "list" /\ UNCHANGED <<idx, results>>
            ELSE Push(Res(FALSE, CurOp.userEmail, CurOp.delegateEmail, CurOp.operation,
                          "Invalid operation", NoDelegates))
         /\ gmail' = IF out = "ok" THEN NewClient(CurOp.userEmail) ELSE gmail
    /\ UNCHANGED <<remote, calls, scriptVars, tmp>>
    /\ EngineFrame

\* listDelegates of a route, spread into the result of a list request
RouteListResult(out, m) ==
    IF out = "ok"
    THEN Res(TRUE, m, Undefined, kList, "Delegates retrieved successfully", DelegatesOf(gmail))
    ELSE Res(FALSE, m, Undefined, kList, "remote error", NoDelegates)

\* the guard of addDelegateDirectly / removeDelegateDirectly: it looks at the list
\* only when the list call succeeded
DirectGuard(op, out, exists) ==
    IF out = "ok" /\ op = kAdd /\ exists THEN "already exists"
    ELSE IF out = "ok" /\ op = kRemove /\ ~exists THEN "does not exist"
    ELSE "go"

\* a list request, or the list call of addDelegateDirectly / removeDelegateDirectly
directBatch_list ==
    /\ impl = "direct" /\ pc = "list"
    /\ \E out \in ListOutcomes(gmail) :
         /\ Env(out)
         /\ LET m == CurOp.userEmail
                d == CurOp.delegateEmail
                g == DirectGuard(CurOp.operation, out, d \in DelegatesOf(gmail))
            IN  /\ calls' = Append(calls, Call("list", gmail, Undefined, out))
                /\ IF IsListRequest THEN Push(RouteListResult(out, m))
                   ELSE IF g = "go" THEN pc' = "mutate" /\ UNCHANGED <<idx, results>>
                   ELSE Push(Res(FALSE, m, d, CurOp.operation, g, NoDelegates))
    /\ UNCHANGED <<remote, scriptVars, tmp>>
    /\ UNCHANGED gmail
    /\ EngineFrame

\* delegates.create / delegates.delete of addDelegateDirectly / removeDelegateDirectly
directBatch_mutate ==
    /\ impl = "direct" /\ pc = "mutate"
    /\ \E out \in MutateOutcomes(gmail, CurOp.delegateEmail) :
         /\ Env(out)
         /\ LET m == CurOp.userEmail
                d == CurOp.delegateEmail
                add == CurOp.operation = kAdd
            IN  /\ calls' = Append(calls, Call(IF add THEN "create" ELSE "delete", gmail, d, out))
                /\ remote' = IF add THEN RemoteCreate(gmail, d, out) ELSE RemoteDelete(gmail, d, out)
                /\ Push(IF out = "ok"
                        THEN Res(TRUE, m, d, CurOp.operation,
                                 IF add THEN "added successfully" ELSE "removed successfully",
                                 NoDelegates)
                        ELSE Res(FALSE, m, d, CurOp.operation, "remote error", NoDelegates))
    /\ UNCHANGED <<scriptVars, tmp>>
    /\ UNCHANGED gmail
    /\ EngineFrame

DirectNext ==
    \/ directBatch_loop
    \/ directBatch_client
    \/ directBatch_list
    \/ directBatch_mutate

----------------------------------------------------------------------------
(* "script": processBatch of app/api/delegates/route.ts, with the child scripts *)
(* createDelegate.ts (addDelegateAccount) and deleteDelegate.ts                 *)
(* (deleteDelegateAccount)                                                      *)

\* where processBatch sends an operation
ScriptRoute(op) ==
    IF op = kList THEN "client"
    ELSE IF op \in {kAdd, kRemove} THEN "exec"
    ELSE "invalid"

\* the for..of loop of processBatch and its if / else-if chain; destructuring a
\* null element throws, and nothing in processBatch catches it
processBatch_loop ==
    /\ impl = "script" /\ pc = "dispatch"
    /\ IF idx > Len(operations) THEN pc' = "done" /\ UNCHANGED <<idx, results>>
       ELSE IF CurOp = NullOp
       THEN pc' = "thrown" /\ UNCHANGED <<idx, results>>
       ELSE IF ScriptRoute(CurOp.operation) = "invalid"
       THEN Push(Res(FALSE, CurOp.userEmail, CurOp.delegateEmail, CurOp.operation,
                     "Invalid operation", NoDelegates))
       ELSE pc' = ScriptRoute(CurOp.operation) /\ UNCHANGED <<idx, results>>
    /\ UNCHANGED <<remote, calls, scriptVars, tmp>>
    /\ UNCHANGED <<envFailed, ioLog>>
    /\ UNCHANGED gmail
    /\ EngineFrame

\* a list request: createGmailClient of the route (no probe)
processBatch_client ==
    /\ impl = "script" /\ pc = "client"
    /\ \E out \in {"ok", "io_error"} :
         /\ Env(out)
         /\ IF out = "io_error"
            THEN SkipRequest(Res(FALSE, CurOp.userEmail, Undefined, kList,
                                 "Failed to create Gmail client", NoDelegates))
            ELSE pc' = "list" /\ UNCHANGED <<idx, results>>
         /\ gmail' = IF out = "ok" THEN NewClient(CurOp.userEmail) ELSE gmail
    /\ UNCHANGED <<remote, calls, scriptVars, tmp>>
    /\ EngineFrame

\* a list request: listDelegates of the route
processBatch_list ==
    /\ impl = "script" /\ pc = "list"
    /\ \E out \in ListOutcomes(gmail) :
         /\ Env(out)
         /\ calls' = Append(calls, Call("list", gmail, Undefined, out))
         /\ Push(RouteListResult(out, CurOp.userEmail))
    /\ UNCHANGED <<remote, scriptVars, tmp>>
    /\ UNCHANGED gmail
    /\ EngineFrame

\* userEmails.split(",").map(trim) and delegateEmails.split(",").map(trim)
userEmailArray == MapTrim(Split(CurOp.userEmail, ","))
delegateEmailArray == MapTrim(Split(CurOp.delegateEmail, ","))

\* addDelegate / removeDelegate read the child's output: a non-empty stderr
\* without the word ExperimentalWarning is a failure; otherwise the result is
\* a success unless stdout holds the word Error
ScriptResult(err, outErr) ==
    LET m == CurOp.userEmail
        d == CurOp.delegateEmail
        add == CurOp.operation = kAdd
        stderrNonEmpty == err \/ expWarn
    IN  IF stderrNonEmpty /\ ~expWarn
        THEN Res(FALSE, m, d, CurOp.operation, "Error executing script", NoDelegates)
        ELSE IF ~outErr
        THEN Res(TRUE, m, d, CurOp.operation,
                 IF add THEN "added successfully" ELSE "removed successfully", NoDelegates)
        ELSE Res(FALSE, m, d, CurOp.operation,
                 IF add THEN "Failed to add delegate" ELSE "Failed to remove delegate",
                 NoDelegates)

\* the child has ended: the parent builds the result and pushes it
ScriptReturn(err, outErr) ==
    /\ Push(ScriptResult(err, outErr))
    /\ scriptErr' = FALSE /\ stdoutErr' = FALSE /\ ui' = 1 /\ di' = 1

\* the inner and outer for loops of the child: next delegate, else next user,
\* else the child ends
ScriptAdvance(err, outErr) ==
    IF di < Len(delegateEmailArray)
    THEN /\ di' = di + 1 /\ ui' = ui /\ pc' = "s_list"
         /\ scriptErr' = err /\ stdoutErr' = outErr
         /\ UNCHANGED <<idx, results>>
    ELSE IF ui < Len(userEmailArray)
    THEN /\ ui' = ui + 1 /\ di' = 1 /\ pc' = "s_client"
         /\ scriptErr' = err /\ stdoutErr' = outErr
         /\ UNCHANGED <<idx, results>>
    ELSE ScriptReturn(err, outErr)

\* addDelegate / removeDelegate: the parameter file is written and the child is
\* started; the child splits its arguments and loads the key.  Writing the file or
\* starting the child may fail (caught: a failed result).  A missing userEmails or
\* delegateEmails makes split throw inside the child's try, and an unreadable key
\* makes readFileSync throw there: both are written with console.error.
addDelegate_exec ==
    /\ impl = "script" /\ pc = "exec"
    /\ \E out \in {"ok", "io_error", "key_error"} :
         /\ Env(out)
         /\ CASE out = "io_error" ->
                   /\ Push(Res(FALSE, CurOp.userEmail, CurOp.delegateEmail, CurOp.operation,
                               "io error", NoDelegates))
                   /\ UNCHANGED scriptVars
              [] out = "key_error" \/ CurOp.userEmail = Undefined
                                   \/ CurOp.delegateEmail = Undefined ->
                   ScriptReturn(TRUE, FALSE)
              [] OTHER ->
                   /\ pc' = "s_client" /\ ui' = 1 /\ di' = 1
                   /\ scriptErr' = FALSE /\ stdoutErr' = FALSE
                   /\ UNCHANGED <<idx, results>>
    /\ tmp' = IF pc' = "s_client" THEN WriteFile(tmp, ParamsPath(now), Self) ELSE tmp
    /\ UNCHANGED <<remote, calls>>
    /\ UNCHANGED gmail
    /\ EngineFrame

\* the child, for one userEmail: createGmailClient of gmail-integration.ts (with
\* its probe); a failure is written with console.error and the user is skipped
script_client ==
    /\ impl = "script" /\ pc = "s_client"
    /\ LET m == userEmailArray[ui]
           outErr == stdoutErr \/ Includes(m, kError)
       IN  \E out \in ProbeOutcomes(NewClient(m)) :
             /\ Env(out)
             /\ calls' = Append(calls, Call("probe", NewClient(m), Undefined, out))
             /\ gmail' = IF out = "ok" THEN NewClient(m) ELSE gmail
             /\ IF out = "ok"
                THEN /\ pc' = "s_list" /\ di' = 1 /\ ui' = ui
                     /\ scriptErr' = scriptErr /\ stdoutErr' = outErr
                     /\ UNCHANGED <<idx, results>>
                ELSE IF ui < Len(userEmailArray)
                THEN /\ ui' = ui + 1 /\ di' = 1 /\ pc' = "s_client"
                     /\ scriptErr' = TRUE /\ stdoutErr' = outErr
                     /\ UNCHANGED <<idx, results>>
                ELSE ScriptReturn(TRUE, outErr)
    /\ Finally(ParamsPath(now))
    /\ UNCHANGED remote
    /\ EngineFrame

\* the check of the child: delegateExists = result.success && some(...);
\* "skip" goes on to the next delegate, "go" lets the mutation through
ScriptGuard(op, out, exists) ==
    LET delegateExists == out = "ok" /\ exists
    IN  IF op = kAdd THEN (IF delegateExists THEN "skip" ELSE "go")
        ELSE (IF delegateExists THEN "go" ELSE "skip")

\* the child, for one delegateEmail: listDelegates (a failure is written with
\* console.error by listDelegates), then the check
script_list ==
    /\ impl = "script" /\ pc = "s_list"
    /\ LET m == userEmailArray[ui]
           d == delegateEmailArray[di]
           outErr == stdoutErr \/ Includes(m, kError) \/ Includes(d, kError)
       IN  \E out \in ListOutcomes(gmail) :
             /\ Env(out)
             /\ LET err == scriptErr \/ out # "ok"
                IN  /\ calls' = Append(calls, Call("list", gmail, Undefined, out))
                    /\ IF ScriptGuard(CurOp.operation, out, d \in DelegatesOf(gmail)) = "go"
                       THEN /\ pc' = "s_mutate"
                            /\ scriptErr' = err /\ stdoutErr' = outErr
                            /\ UNCHANGED <<idx, results, ui, di>>
                       ELSE ScriptAdvance(err, outErr)
    /\ Finally(ParamsPath(now))
    /\ UNCHANGED remote
    /\ UNCHANGED gmail
    /\ EngineFrame

\* the child: delegates.create / delegates.delete in its own try; a failure is
\* written with console.error and the loop goes on
script_mutate ==
    /\ impl = "script" /\ pc = "s_mutate"
    /\ LET m == userEmailArray[ui]
           d == delegateEmailArray[di]
           add == CurOp.operation = kAdd
       IN  \E out \in MutateOutcomes(gmail, d) :
             /\ Env(out)
             /\ calls' = Append(calls, Call(IF add THEN "create" ELSE "delete", gmail, d, out))
             /\ remote' = IF add THEN RemoteCreate(gmail, d, out) ELSE RemoteDelete(gmail, d, out)
             /\ ScriptAdvance(scriptErr \/ out # "ok", stdoutErr)
    /\ Finally(ParamsPath(now))
    /\ UNCHANGED gmail
    /\ EngineFrame

ScriptNext ==
    \/ processBatch_loop
    \/ processBatch_client
    \/ processBatch_list
    \/ addDelegate_exec
    \/ script_client
    \/ script_list
    \/ script_mutate

----------------------------------------------------------------------------
(* A batch handed directly to one of the three batch processors *)

File == <<"file">>

\* the requests batches are made of
RequestPool ==
    { Req(kAdd, M1, D1), Req(kRemove, M1, D1), Req(kList, M1, Undefined),
      Req(kAdd, M2, D1), Req(kBogus, M1, D1), Req(kAdd, M1, Empty) }

Batches == UNION { [1..n -> RequestPool] : n \in 0..MaxBatch }

\* the remote service before the batch
InitRemotes == { [m \in Mailboxes |-> IF m = M1 THEN s ELSE {}] : s \in SUBSET {D1} }

\* no FormData has been handed to onSubmit; no response has come back
NoFormData == [none |-> TRUE]
NoResponse == [none |-> TRUE]

\* the callers of the concurrent addDelegate calls
Callers == 1..MaxCallers

\* a caller that has not started; got: whose parameters its child read (0: none
\* yet, -1: the file was missing)
ProcStart == [pc |-> "start", path |-> ParamsPath(0), got |-> 0]

\* no temporary file, the clock at its first value, nobody started
ConcIdle == tmp = NoFiles /\ now = 1 /\ proc = [p \in Callers |-> ProcStart]

\* no run to compare with
NoRun == [none |-> TRUE]

\* no submission sent while another one was in flight; batchMode and operation
\* are the values the handler that sent it has closed over
NoResend == [sent |-> 0, returned |-> 0, batchMode |-> FALSE, operation |-> kList]

\* nothing handed to the parser alone, no external actor, no disconnection, no
\* earlier run
EnvIdle ==
    /\ lines = <<>> /\ parsed = [done |-> FALSE, operations |-> <<>>]
    /\ raced = {} /\ cancelledAt = -1 /\ run1 = NoRun /\ resent = NoResend

\* the form, untouched
FormIdle ==
    /\ operation = kList /\ userEmail = <<>> /\ delegateEmail = <<>>
    /\ batchMode = FALSE /\ batchEmails = <<>>
    /\ isSubmitting = FALSE /\ showConfirmation = FALSE
    /\ formData = NoFormData /\ response = NoResponse /\ shownFor = <<>>
    /\ confirmationUsed = FALSE

Init ==
    /\ impl \in {"ops", "script", "direct"}
    /\ operations \in Batches
    /\ idx = 1 /\ pc = "dispatch" /\ results = <<>> /\ calls = <<>> /\ gmail = Null
    /\ remote \in InitRemotes /\ remote0 = remote /\ envFailed = FALSE
    /\ ioLog = <<>>
    /\ ui = 1 /\ di = 1 /\ scriptErr = FALSE /\ stdoutErr = FALSE
    /\ expWarn \in (IF impl = "script" THEN BOOLEAN ELSE {FALSE})
    /\ serviceAccountFile \in (IF impl = "ops" THEN {File, Null} ELSE {File})
    /\ FormIdle
    /\ ConcIdle
    /\ EnvIdle

Next == OpsNext \/ DirectNext \/ ScriptNext

Spec == Init /\ [][Next]_vars

\* the steps that wait for nothing but the process itself: the loops, reading
\* the key file, writing the parameter file and starting the child
LocalSteps ==
    \/ processBatchOperations_nofile
    \/ processBatchOperations_loop
    \/ directBatch_loop
    \/ directBatch_client
    \/ processBatch_loop
    \/ processBatch_client
    \/ addDelegate_exec

\* the batch with its scheduling: a local step is taken when it can be, while an
\* await on the remote service resumes only if the remote service answers
LiveSpec == Init /\ [][Next]_vars /\ WF_vars(LocalSteps)

----------------------------------------------------------------------------
(* The form handler: useDelegateFormHandler *)

\* authMethod as DelegateForm passes it to the hook
authMethod == <<"service-account">>

\* a variant of ParseLine in which the fields are not trimmed
ParseLine_noTrim(line) ==
    LET f == Split(line, ",")
    IN  [operation |-> At(f, 1), userEmail |-> At(f, 2), delegateEmail |-> At(f, 3)]

\* one line of the batch text: item.trim() of line.split(","), destructured
ParseLine(line) ==
    LET f == MapTrim(Split(line, ","))
    IN  [operation |-> At(f, 1), userEmail |-> At(f, 2), delegateEmail |-> At(f, 3)]

RECURSIVE MapParseLine(_)
MapParseLine(ls) ==
    IF ls = <<>> THEN <<>> ELSE <<ParseLine(Head(ls))>> \o MapParseLine(Tail(ls))

\* parseBatchOperations: split("\n"), filter(line => line.trim()), map
parseBatchOperations(batch) == MapParseLine(FilterNonBlank(Split(batch, "\n")))

\* the confirmation gate of handleSubmit: the submission is destructive
IsDestructive == operation = kRemove \/ (batchMode /\ Includes(batchEmails, kRemove))

\* the three early returns of handleSubmit on missing information
MissingInformation ==
    \/ ~batchMode /\ ~Truthy(userEmail)
    \/ ~batchMode /\ operation \in {kAdd, kRemove} /\ ~Truthy(delegateEmail)
    \/ batchMode /\ ~Truthy(Trim(batchEmails))

\* history: the request set the form stands for
RequestSet ==
    IF batchMode THEN parseBatchOperations(batchEmails)
    ELSE <<Req(operation, userEmail, delegateEmail)>>

\* the FormData built by handleSubmit; requests, text and confirmed are history
BuildFormData ==
    [serviceAccount |-> serviceAccountFile,
     operation |-> operation,
     hasOperations |-> batchMode,
     operations |-> IF batchMode THEN parseBatchOperations(batchEmails) ELSE <<>>,
     userEmail |-> IF batchMode THEN Undefined ELSE userEmail,
     delegateEmail |-> IF ~batchMode /\ Truthy(delegateEmail) THEN delegateEmail
                       ELSE Undefined,
     requests |-> RequestSet,
     text |-> IF batchMode THEN batchEmails ELSE Undefined,
     confirmed |-> showConfirmation]

\* the values the user may give to the fields
EmailInputs == {<<>>, M1}
DelegateInputs == {<<>>, D1}

LRemove == kRemove \o Comma \o M1 \o Comma \o D1
LAdd == kAdd \o Comma \o M1 \o Comma \o D1
LNoComma == kAdd \o M1 \o Comma \o D1
LBlank == Space

\* the lines batch texts are made of: a remove, an add, a line with the comma
\* after the kind missing, and a blank line
LinePool == {LRemove, LAdd, LNoComma, LBlank}

RECURSIVE JoinLines(_)
JoinLines(ls) ==
    IF ls = <<>> THEN <<>>
    ELSE IF Len(ls) = 1 THEN ls[1]
    ELSE ls[1] \o Newline \o JoinLines(Tail(ls))

BatchTexts == { JoinLines(ls) : ls \in UNION { [1..n -> LinePool] : n \in 0..MaxLines } }

\* the setters of the hook, called by the inputs while no submission is in flight
setOperation ==
    /\ ~isSubmitting
    /\ \E v \in {kList, kAdd, kRemove} : operation' = v
    /\ UNCHANGED <<userEmail, delegateEmail, batchMode, batchEmails, isSubmitting,
                   showConfirmation, formData, response, shownFor, confirmationUsed>>
    /\ UNCHANGED <<engineVars, serviceAccountFile>>

setUserEmail ==
    /\ ~isSubmitting
    /\ \E v \in EmailInputs : userEmail' = v
    /\ UNCHANGED <<operation, delegateEmail, batchMode, batchEmails, isSubmitting,
                   showConfirmation, formData, response, shownFor, confirmationUsed>>
    /\ UNCHANGED <<engineVars, serviceAccountFile>>

setDelegateEmail ==
    /\ ~isSubmitting
    /\ \E v \in DelegateInputs : delegateEmail' = v
    /\ UNCHANGED <<operation, userEmail, batchMode, batchEmails, isSubmitting,
                   showConfirmation, formData, response, shownFor, confirmationUsed>>
    /\ UNCHANGED <<engineVars, serviceAccountFile>>

setBatchMode ==
    /\ ~isSubmitting
    /\ \E v \in BOOLEAN : batchMode' = v
    /\ UNCHANGED <<operation, userEmail, delegateEmail, batchEmails, isSubmitting,
                   showConfirmation, formData, response, shownFor, confirmationUsed>>
    /\ UNCHANGED <<engineVars, serviceAccountFile>>

setBatchEmails ==
    /\ ~isSubmitting
    /\ \E v \in BatchTexts : batchEmails' = v
    /\ UNCHANGED <<operation, userEmail, delegateEmail, batchMode, isSubmitting,
                   showConfirmation, formData, response, shownFor, confirmationUsed>>
    /\ UNCHANGED <<engineVars, serviceAccountFile>>

\* a variant of the gate that looks at the selected operation only
GateStops_singleOnly == operation = kRemove /\ ~showConfirmation

\* the gate stops the submission and asks for confirmation
GateStops == IsDestructive /\ ~showConfirmation

\* handleSubmit up to its await: the early returns, the confirmation gate, then
\* the FormData is built and handed to onSubmit.  The submit button is disabled
\* while isSubmitting.
handleSubmit ==
    /\ ~isSubmitting
    /\ IF ~Truthy(authMethod) \/ MissingInformation
       THEN UNCHANGED <<showConfirmation, shownFor, isSubmitting, formData, confirmationUsed>>
       ELSE IF GateStops
       THEN /\ showConfirmation' = TRUE
            /\ shownFor' = RequestSet
            /\ confirmationUsed' = FALSE
            /\ UNCHANGED <<isSubmitting, formData>>
       ELSE IF serviceAccountFile = Null
       THEN /\ confirmationUsed' = showConfirmation
            /\ UNCHANGED <<showConfirmation, shownFor, isSubmitting, formData>>
       ELSE /\ isSubmitting' = TRUE
            /\ formData' = BuildFormData
            /\ confirmationUsed' = showConfirmation
            /\ UNCHANGED <<showConfirmation, shownFor>>
    /\ UNCHANGED <<operation, userEmail, delegateEmail, batchMode, batchEmails, response>>
    /\ UNCHANGED <<engineVars, serviceAccountFile>>

----------------------------------------------------------------------------
(* The route: POST /api/delegates, reached through onSubmit *)

\* the outcomes of the onSubmit the page passes to the hook
OnSubmitOutcomes == {"resolved", "rejected"}

Response(st, succ) == [status |-> st, success |-> succ]

\* POST up to its first await on the remote service: the file, the batch branch,
\* the validation of the single branch.  The single branch makes the calls
\* processBatch makes for one request.  The key is saved to a temporary file
\* before the try; a return from inside the try runs the finally, which unlinks it.
POST ==
    /\ impl = "script" /\ pc = "idle"
    /\ formData # NoFormData /\ response = NoResponse
    /\ results' = <<>> /\ calls' = <<>> /\ idx' = 1 /\ envFailed' = FALSE
    /\ ioLog' = <<>>
    /\ LET op == IF Truthy(formData.operation) THEN formData.operation ELSE kList
           m == formData.userEmail
           d == formData.delegateEmail
       IN  IF formData.serviceAccount = Null
           THEN /\ response' = Response(400, FALSE)
                /\ UNCHANGED <<operations, pc>>
           ELSE IF formData.hasOperations /\ "badJson" \in DOMAIN formData
           THEN /\ response' = Response(500, FALSE)
                /\ UNCHANGED <<operations, pc>>
           ELSE IF formData.hasOperations
           THEN /\ operations' = formData.operations
                /\ pc' = "dispatch"
                /\ UNCHANGED response
           ELSE IF ~Truthy(m)
           THEN /\ response' = Response(400, FALSE)
                /\ UNCHANGED <<operations, pc>>
           ELSE IF op = kList
           THEN /\ operations' = <<Req(kList, m, Undefined)>>
                /\ pc' = "client"
                /\ UNCHANGED response
           ELSE IF op \in {kAdd, kRemove}
           THEN IF ~Truthy(d)
                THEN /\ response' = Response(400, FALSE)
                     /\ UNCHANGED <<operations, pc>>
                ELSE /\ operations' = <<Req(op, m, d)>>
                     /\ pc' = "exec"
                     /\ UNCHANGED response
           ELSE /\ response' = Response(400, FALSE)
                /\ UNCHANGED <<operations, pc>>
    /\ tmp' = IF pc' = "idle" THEN tmp ELSE WriteFile(tmp, SaPath, Self)
    /\ UNCHANGED <<impl, remote, gmail, scriptVars, expWarn, remote0, serviceAccountFile, concVars,
                   envVars>>
    /\ UNCHANGED <<operation, userEmail, delegateEmail, batchMode, batchEmails,
                   isSubmitting, showConfirmation, formData, shownFor, confirmationUsed>>

\* POST returns: the batch branch answers success: true with the results, the
\* single branch answers with the result itself (500 when no client was made);
\* what processBatch threw is caught by the outer catch (500)
POST_return ==
    /\ impl = "script" /\ pc \in {"done", "thrown"}
    /\ formData # NoFormData /\ response = NoResponse
    /\ response' =
         IF pc = "thrown" THEN Response(500, FALSE)
         ELSE IF formData.hasOperations THEN Response(200, TRUE)
         ELSE IF results[1].message = "Failed to create Gmail client"
         THEN Response(500, FALSE)
         ELSE Response(200, results[1].success)
    /\ pc' = "idle"
    /\ tmp' = Unlink(tmp, SaPath)
    /\ UNCHANGED <<impl, operations, idx, results, remote, calls, gmail, scriptVars, expWarn,
                   envFailed, ioLog, remote0, serviceAccountFile, concVars, envVars>>
    /\ UNCHANGED <<operation, userEmail, delegateEmail, batchMode, batchEmails,
                   isSubmitting, showConfirmation, formData, shownFor, confirmationUsed>>

\* handleSubmit after its await: onSubmit has resolved (the form is reset and the
\* confirmation is withdrawn) or rejected (caught); finally isSubmitting is false
handleSubmit_resume ==
    /\ formData # NoFormData /\ response # NoResponse
    /\ \E out \in OnSubmitOutcomes :
         IF out = "resolved"
         THEN /\ delegateEmail' = IF ~formData.hasOperations /\ formData.operation # kList
                                  THEN <<>> ELSE delegateEmail
              /\ batchEmails' = IF formData.hasOperations THEN <<>> ELSE batchEmails
              /\ showConfirmation' = FALSE
              /\ shownFor' = <<>>
              /\ confirmationUsed' = FALSE
         ELSE UNCHANGED <<delegateEmail, batchEmails, showConfirmation, shownFor,
                          confirmationUsed>>
    /\ isSubmitting' = FALSE
    /\ formData' = NoFormData /\ response' = NoResponse
    /\ operations' = <<>> /\ results' = <<>> /\ calls' = <<>> /\ idx' = 1
    /\ envFailed' = FALSE /\ ioLog' = <<>> /\ gmail' = Null
    /\ UNCHANGED <<operation, userEmail, batchMode>>
    /\ UNCHANGED <<impl, pc, remote, scriptVars, expWarn, remote0, serviceAccountFile,
                   tmp, concVars, envVars>>

\* the page: nothing submitted yet
FormInit ==
    /\ impl = "script"
    /\ operations = <<>>
    /\ idx = 1 /\ pc = "idle" /\ results = <<>> /\ calls = <<>> /\ gmail = Null
    /\ remote \in InitRemotes /\ remote0 = remote /\ envFailed = FALSE
    /\ ioLog = <<>>
    /\ ui = 1 /\ di = 1 /\ scriptErr = FALSE /\ stdoutErr = FALSE
    /\ expWarn \in BOOLEAN
    /\ serviceAccountFile \in {File, Null}
    /\ FormIdle
    /\ ConcIdle
    /\ EnvIdle

FormNext ==
    \/ setOperation
    \/ setUserEmail
    \/ setDelegateEmail
    \/ setBatchMode
    \/ setBatchEmails
    \/ handleSubmit
    \/ POST
    \/ POST_return
    \/ handleSubmit_resume
    \/ ScriptNext

FormSpec == FormInit /\ [][FormNext]_vars

----------------------------------------------------------------------------
(* The form of the tabbed page: its submit button does not look at isSubmitting *)

\* most submissions sent while another one is in flight
MaxResent == 1

\* the submit button of the batch tab: disabled={!authMethod || isLoading ||
\* !batchEmails.trim()}, isLoading being a prop of the form
SubmitEnabled(isLoading) ==
    Truthy(authMethod) /\ ~isLoading /\ Truthy(Trim(batchEmails))

\* handleSubmit invoked through that button while a submission is in flight: the
\* same checks, the same gate, and another FormData handed to onSubmit
handleSubmit_reentered ==
    /\ formData # NoFormData
    /\ resent.sent < MaxResent
    /\ \E isLoading \in BOOLEAN : SubmitEnabled(isLoading)
    /\ IF ~Truthy(authMethod) \/ MissingInformation
       THEN UNCHANGED <<showConfirmation, shownFor, isSubmitting, confirmationUsed, resent>>
       ELSE IF GateStops
       THEN /\ showConfirmation' = TRUE
            /\ shownFor' = RequestSet
            /\ confirmationUsed' = FALSE
            /\ UNCHANGED <<isSubmitting, resent>>
       ELSE IF serviceAccountFile = Null
       THEN /\ isSubmitting' = FALSE
            /\ confirmationUsed' = showConfirmation
            /\ UNCHANGED <<showConfirmation, shownFor, resent>>
       ELSE /\ isSubmitting' = TRUE
            /\ resent' = [sent |-> resent.sent + 1, returned |-> resent.returned,
                          batchMode |-> batchMode, operation |-> operation]
            /\ confirmationUsed' = showConfirmation
            /\ UNCHANGED <<showConfirmation, shownFor>>
    /\ UNCHANGED <<operation, userEmail, delegateEmail, batchMode, batchEmails, formData,
                   response>>
    /\ UNCHANGED <<impl, operations, idx, pc, results, remote, calls, gmail, scriptVars,
                   expWarn, envFailed, ioLog, remote0, tmp, concVars, serviceAccountFile>>
    /\ UNCHANGED <<lines, parsed, raced, cancelledAt, run1>>

\* that handleSubmit after its await: the form is reset when onSubmit resolved,
\* and finally isSubmitting is false
handleSubmit_reentered_resume ==
    /\ resent.returned < resent.sent
    /\ \E out \in OnSubmitOutcomes :
         IF out = "resolved"
         THEN /\ delegateEmail' = IF ~resent.batchMode /\ resent.operation # kList
                                  THEN <<>> ELSE delegateEmail
              /\ batchEmails' = IF resent.batchMode THEN <<>> ELSE batchEmails
              /\ showConfirmation' = FALSE
              /\ shownFor' = <<>>
              /\ confirmationUsed' = FALSE
         ELSE UNCHANGED <<delegateEmail, batchEmails, showConfirmation, shownFor,
                          confirmationUsed>>
    /\ isSubmitting' = FALSE
    /\ resent' = [resent EXCEPT !.returned = @ + 1]
    /\ UNCHANGED <<operation, userEmail, batchMode, formData, response>>
    /\ UNCHANGED <<impl, operations, idx, pc, results, remote, calls, gmail, scriptVars,
                   expWarn, envFailed, ioLog, remote0, tmp, concVars, serviceAccountFile>>
    /\ UNCHANGED <<lines, parsed, raced, cancelledAt, run1>>

\* handleSubmit invoked while no submission is in flight
handleSubmit_first == formData = NoFormData /\ handleSubmit

\* setBatchEmails with a text of at most one line
setBatchEmails_line == setBatchEmails /\ batchEmails' \in {<<>>, LAdd, LRemove}

\* the tabbed page never calls setBatchMode
ReentryNext ==
    \/ setOperation
    \/ setUserEmail
    \/ setDelegateEmail
    \/ setBatchEmails_line
    \/ handleSubmit_first
    \/ handleSubmit_reentered
    \/ handleSubmit_reentered_resume
    \/ POST
    \/ POST_return
    \/ handleSubmit_resume
    \/ ScriptNext

ReentrySpec == FormInit /\ [][ReentryNext]_vars

----------------------------------------------------------------------------
(* The endpoints alone: POST of route.ts and POST of the direct-API route,
   handed the form data of any HTTP client *)

\* longest operations array posted to the endpoint
MaxApiBatch == 2

\* a response of the direct-API route that has an error field and no success field
ErrorResponse(st) == [status |-> st, error |-> TRUE]

\* the elements of a posted operations array
ApiPool ==
    { Req(kAdd, M1, D1), Req(kRemove, M1, D1), Req(kList, M1, Undefined),
      Req(kBogus, M1, D1), NullOp }

ApiBatches == UNION { [1..n -> ApiPool] : n \in 0..MaxApiBatch }

\* form data without an operations field; serviceAccount is the file under the
\* field name the endpoint reads
RawSingles ==
    [serviceAccount : {File, Null},
     operation : {Undefined, kList, kAdd, kRemove, kBogus},
     hasOperations : {FALSE},
     operations : {<<>>},
     userEmail : {Undefined, M1},
     delegateEmail : {Undefined, D1}]

\* form data with an operations field: the JSON of an array, or a text that
\* JSON.parse rejects
RawBatches ==
    { [serviceAccount |-> f, operation |-> Undefined, hasOperations |-> TRUE,
       operations |-> b, userEmail |-> Undefined, delegateEmail |-> Undefined] :
         f \in {File, Null}, b \in ApiBatches }
    \cup
    { [serviceAccount |-> f, operation |-> Undefined, hasOperations |-> TRUE,
       operations |-> <<>>, userEmail |-> Undefined, delegateEmail |-> Undefined,
       badJson |-> TRUE] : f \in {File, Null} }

\* what a step of the direct-API POST never touches
DirectPostFrame ==
    /\ UNCHANGED <<impl, idx, results, scriptVars, expWarn, envFailed, ioLog, remote0,
                   serviceAccountFile, concVars, envVars>>
    /\ UNCHANGED <<operation, userEmail, delegateEmail, batchMode, batchEmails,
                   isSubmitting, showConfirmation, formData, shownFor, confirmationUsed>>

\* the handler returns r; finally the copy of the key is removed
DirectPostReturn(r) ==
    /\ response' = r
    /\ pc' = "idle"
    /\ tmp' = Unlink(tmp, SaPath)

\* POST of the direct-API route: the three fields are required, an operation
\* field is not read; the key is saved
directPOST ==
    /\ impl = "direct" /\ pc = "idle"
    /\ formData # NoFormData /\ response = NoResponse
    /\ IF formData.serviceAccount = Null \/ ~Truthy(formData.userEmail)
          \/ ~Truthy(formData.delegateEmail)
       THEN /\ response' = ErrorResponse(400)
            /\ UNCHANGED <<operations, pc, tmp>>
       ELSE /\ operations' = <<Req(kAdd, formData.userEmail, formData.delegateEmail)>>
            /\ pc' = "p_client"
            /\ tmp' = WriteFile(tmp, SaPath, Self)
            /\ UNCHANGED response
    /\ UNCHANGED <<calls, gmail, remote>>
    /\ DirectPostFrame

\* the key is read back and the probing client of gmail-integration.ts is made
directPOST_client ==
    /\ impl = "direct" /\ pc = "p_client"
    /\ \E out \in {"io_error"} \cup ProbeOutcomes(NewClient(CurOp.userEmail)) :
         /\ calls' = IF out = "io_error" THEN calls
                     ELSE Append(calls, Call("probe", NewClient(CurOp.userEmail), Undefined, out))
         /\ IF out = "ok"
            THEN /\ pc' = "p_list"
                 /\ gmail' = NewClient(CurOp.userEmail)
                 /\ UNCHANGED <<response, tmp>>
            ELSE /\ DirectPostReturn(ErrorResponse(500))
                 /\ UNCHANGED gmail
    /\ UNCHANGED <<operations, remote>>
    /\ DirectPostFrame

\* listDelegates, then the check for an existing delegate
directPOST_list ==
    /\ impl = "direct" /\ pc = "p_list"
    /\ \E out \in ListOutcomes(gmail) :
         /\ calls' = Append(calls, Call("list", gmail, Undefined, out))
         /\ IF out # "ok"
            THEN DirectPostReturn(ErrorResponse(500))
            ELSE IF CurOp.delegateEmail \in DelegatesOf(gmail)
            THEN DirectPostReturn(ErrorResponse(400))
            ELSE pc' = "p_create" /\ UNCHANGED <<response, tmp>>
    /\ UNCHANGED <<operations, gmail, remote>>
    /\ DirectPostFrame

\* delegates.create; a refusal is thrown to the outer catch
directPOST_create ==
    /\ impl = "direct" /\ pc = "p_create"
    /\ \E out \in MutateOutcomes(gmail, CurOp.delegateEmail) :
         /\ calls' = Append(calls, Call("create", gmail, CurOp.delegateEmail, out))
         /\ remote' = RemoteCreate(gmail, CurOp.delegateEmail, out)
         /\ DirectPostReturn(IF out = "ok" THEN Response(200, TRUE) ELSE ErrorResponse(500))
    /\ UNCHANGED <<operations, gmail>>
    /\ DirectPostFrame

\* a request has arrived at one of the two endpoints
ApiInit ==
    /\ impl \in {"script", "direct"}
    /\ operations = <<>>
    /\ idx = 1 /\ pc = "idle" /\ results = <<>> /\ calls = <<>> /\ gmail = Null
    /\ remote \in InitRemotes /\ remote0 = remote /\ envFailed = FALSE
    /\ ioLog = <<>>
    /\ ui = 1 /\ di = 1 /\ scriptErr = FALSE /\ stdoutErr = FALSE
    /\ expWarn \in (IF impl = "script" THEN BOOLEAN ELSE {FALSE})
    /\ serviceAccountFile = Null
    /\ operation = kList /\ userEmail = <<>> /\ delegateEmail = <<>>
    /\ batchMode = FALSE /\ batchEmails = <<>>
    /\ isSubmitting = FALSE /\ showConfirmation = FALSE
    /\ formData \in RawSingles \cup RawBatches
    /\ response = NoResponse /\ shownFor = <<>>
    /\ confirmationUsed = FALSE
    /\ ConcIdle
    /\ EnvIdle

ApiNext ==
    \/ POST
    \/ POST_return
    \/ ScriptNext
    \/ directPOST
    \/ directPOST_client
    \/ directPOST_list
    \/ directPOST_create

ApiSpec == ApiInit /\ [][ApiNext]_vars

----------------------------------------------------------------------------
(* A batch with an external actor on the remote service *)

\* the mailbox and the delegate of the create / delete call the processor is
\* about to make
PendingUser == gmail
PendingDelegate == IF pc = "s_mutate" THEN delegateEmailArray[di] ELSE CurOp.delegateEmail

\* between the list call of a request and its create / delete call, somebody else
\* (an administrator, another batch) adds the delegate the request is about to
\* add, or removes the delegate it is about to remove
External ==
    /\ pc \in {"mutate", "s_mutate"} /\ idx \notin raced
    /\ PendingUser \in Mailboxes /\ PendingDelegate \in Delegates
    /\ IF CurOp.operation = kAdd
       THEN /\ PendingDelegate \notin remote[PendingUser]
            /\ remote' = [remote EXCEPT ![PendingUser] = @ \cup {PendingDelegate}]
       ELSE /\ PendingDelegate \in remote[PendingUser]
            /\ remote' = [remote EXCEPT ![PendingUser] = @ \ {PendingDelegate}]
    /\ raced' = raced \cup {idx}
    /\ UNCHANGED <<impl, operations, idx, pc, results, calls, gmail, scriptVars, expWarn,
                   envFailed, ioLog, remote0, tmp, concVars, serviceAccountFile, formVars>>
    /\ UNCHANGED <<lines, parsed, cancelledAt, run1, resent>>

ExtNext == Next \/ External

ExtSpec == Init /\ [][ExtNext]_vars

----------------------------------------------------------------------------
(* A batch whose caller disconnects *)

\* the caller of the route goes away while the batch is in flight.  Nothing in
\* the processors looks at the request's signal, so no variable of the batch
\* changes; cancelledAt keeps the last request that had started.
Disconnect ==
    /\ cancelledAt = -1 /\ pc \notin {"done", "idle"}
    /\ cancelledAt' = IF pc = "dispatch" THEN idx - 1 ELSE idx
    /\ UNCHANGED <<impl, operations, idx, pc, results, remote, calls, gmail, scriptVars, expWarn,
                   envFailed, ioLog, remote0, tmp, concVars, serviceAccountFile, formVars>>
    /\ UNCHANGED <<lines, parsed, raced, run1, resent>>

CancelNext == Next \/ Disconnect

CancelSpec == Init /\ [][CancelNext]_vars

----------------------------------------------------------------------------
(* Two runs of one batch *)

\* longest batch that is run twice
MaxRunBatch == 2

\* the batch has ended and is handed to a batch processor once more, the same
\* one or another, with the remote service as it was before the first run: what
\* the first run returned and left behind is kept in run1
Rerun ==
    /\ pc = "done" /\ run1 = NoRun
    /\ run1' = [impl |-> impl, results |-> results, remote |-> remote, calls |-> calls,
                ioLog |-> ioLog]
    /\ \E i \in {"ops", "script", "direct"} :
         /\ i # "ops" => serviceAccountFile # Null
         /\ impl' = i
    /\ remote' = remote0
    /\ idx' = 1 /\ pc' = "dispatch" /\ results' = <<>> /\ calls' = <<>> /\ gmail' = Null
    /\ envFailed' = FALSE /\ ioLog' = <<>>
    /\ UNCHANGED <<operations, scriptVars, expWarn, remote0, tmp, concVars,
                   serviceAccountFile, formVars>>
    /\ UNCHANGED <<lines, parsed, raced, cancelledAt, resent>>

TwoRunInit == Init /\ Len(operations) <= MaxRunBatch

TwoRunNext == Next \/ Rerun

TwoRunSpec == TwoRunInit /\ [][TwoRunNext]_vars

----------------------------------------------------------------------------
(* Batches whose email fields hold a comma *)

\* longest batch with comma-separated email fields
MaxSplitBatch == 2

\* two delegate emails in one field, as the command line of the scripts takes them
D1D2 == D1 \o Comma \o D2

SplitPool ==
    { Req(kAdd, M1, D1D2), Req(kRemove, M1, D1D2), Req(kAdd, M1, D1),
      Req(kList, M1, Undefined), Req(kBogus, M1, D1) }

SplitBatches == UNION { [1..n -> SplitPool] : n \in 0..MaxSplitBatch }

\* such a batch is handed to one of the three batch processors
SplitInit ==
    /\ impl \in {"ops", "script", "direct"}
    /\ operations \in SplitBatches
    /\ idx = 1 /\ pc = "dispatch" /\ results = <<>> /\ calls = <<>> /\ gmail = Null
    /\ remote \in { [m \in Mailboxes |-> IF m = M1 THEN t ELSE {}] : t \in SUBSET Delegates }
    /\ remote0 = remote /\ envFailed = FALSE
    /\ ioLog = <<>>
    /\ ui = 1 /\ di = 1 /\ scriptErr = FALSE /\ stdoutErr = FALSE
    /\ expWarn \in (IF impl = "script" THEN BOOLEAN ELSE {FALSE})
    /\ serviceAccountFile \in (IF impl = "ops" THEN {File, Null} ELSE {File})
    /\ FormIdle
    /\ ConcIdle
    /\ EnvIdle

SplitSpec == SplitInit /\ [][Next]_vars

----------------------------------------------------------------------------
(* The parser alone: parseBatchOperations on texts of well formed lines *)

\* a line as the user types it: the fields, joined with commas, each field
\* wrapped in white space when the line is padded
RECURSIVE TypeFields(_, _)
TypeFields(f, pad) ==
    LET x == IF pad THEN Space \o f[1] \o <<"\t">> ELSE f[1]
    IN  IF Len(f) = 1 THEN x ELSE x \o Comma \o TypeFields(Tail(f), pad)

\* the field lists of the lines of the format: operation,userEmail,delegateEmail,
\* a list line with and without its last comma, and no field at all (a blank line)
FieldLists ==
    { <<kAdd, M1, D1>>, <<kRemove, M2, D2>>, <<kList, M1>>, <<kList, M2, Empty>>, <<>> }

\* a typed line: its fields and its text; a blank line is empty or white space,
\* a padded line ends with a carriage return
TypedLines ==
    { [f |-> f, text |-> IF f = <<>> THEN (IF pad THEN Space \o <<"\t">> ELSE <<>>)
                         ELSE IF pad THEN TypeFields(f, TRUE) \o <<"\r">>
                         ELSE TypeFields(f, FALSE)] :
        f \in FieldLists, pad \in BOOLEAN }

\* most lines of a text handed to the parser alone
MaxParseLines == 3

RECURSIVE TextsOf(_)
TextsOf(ls) == IF ls = <<>> THEN <<>> ELSE <<Head(ls).text>> \o TextsOf(Tail(ls))

\* the text of the textarea
TypedText == JoinLines(TextsOf(lines))

\* parseBatchOperations(batchEmails) is called
parseBatchOperations_call ==
    /\ ~parsed.done
    /\ parsed' = [done |-> TRUE, operations |-> parseBatchOperations(TypedText)]
    /\ UNCHANGED <<impl, operations, idx, pc, results, remote, calls, gmail, scriptVars, expWarn,
                   envFailed, ioLog, remote0, tmp, concVars, serviceAccountFile, formVars>>
    /\ UNCHANGED <<lines, raced, cancelledAt, run1, resent>>

\* a text has been typed; nothing else runs
ParseInit ==
    /\ impl = "script"
    /\ operations = <<>>
    /\ idx = 1 /\ pc = "idle" /\ results = <<>> /\ calls = <<>> /\ gmail = Null
    /\ remote = [m \in Mailboxes |-> {}] /\ remote0 = remote /\ envFailed = FALSE
    /\ ioLog = <<>>
    /\ ui = 1 /\ di = 1 /\ scriptErr = FALSE /\ stdoutErr = FALSE
    /\ expWarn = FALSE
    /\ serviceAccountFile = File
    /\ FormIdle
    /\ ConcIdle
    /\ lines \in UNION { [1..n -> TypedLines] : n \in 0..MaxParseLines }
    /\ parsed = [done |-> FALSE, operations |-> <<>>]
    /\ raced = {} /\ cancelledAt = -1 /\ run1 = NoRun /\ resent = NoResend

ParseNext == parseBatchOperations_call

ParseSpec == ParseInit /\ [][ParseNext]_vars

----------------------------------------------------------------------------
(* Two callers in addDelegate / removeDelegate at the same time *)

\* what the concurrent calls leave alone
ConcFrame ==
    UNCHANGED <<impl, operations, idx, pc, results, remote, calls, gmail, scriptVars, expWarn,
                envFailed, ioLog, remote0, serviceAccountFile, formVars, envVars>>

\* the clock goes on
Tick ==
    /\ now < MaxTick
    /\ now' = now + 1
    /\ UNCHANGED <<tmp, proc>>
    /\ ConcFrame

\* addDelegate of caller p: paramsPath is params_<Date.now()>.json and the caller's
\* parameters are written to it; a failed write is caught and ends the call
addDelegate_write(p) ==
    /\ proc[p].pc = "start"
    /\ \E ok \in BOOLEAN :
         IF ok
         THEN /\ tmp' = WriteFile(tmp, ParamsPath(now), p)
              /\ proc' = [proc EXCEPT ![p] = [pc |-> "exec", path |-> ParamsPath(now),
                                              got |-> 0]]
         ELSE /\ proc' = [proc EXCEPT ![p].pc = "done"]
              /\ UNCHANGED tmp
    /\ UNCHANGED now
    /\ ConcFrame

\* the child started for caller p reads the file named by --params: it works on
\* the parameters it finds there, and ends at once when the file is missing
child_readParams(p) ==
    /\ proc[p].pc = "exec"
    /\ proc' = [proc EXCEPT ![p].pc = "finally",
                            ![p].got = IF proc[p].path \in DOMAIN tmp
                                       THEN tmp[proc[p].path] ELSE -1]
    /\ UNCHANGED <<tmp, now>>
    /\ ConcFrame

\* the finally of addDelegate: cleanupFile(paramsPath)
addDelegate_finally(p) ==
    /\ proc[p].pc = "finally"
    /\ tmp' = Unlink(tmp, proc[p].path)
    /\ proc' = [proc EXCEPT ![p].pc = "done"]
    /\ UNCHANGED now
    /\ ConcFrame

\* nothing else runs
ConcInit ==
    /\ impl = "script"
    /\ operations = <<>>
    /\ idx = 1 /\ pc = "idle" /\ results = <<>> /\ calls = <<>> /\ gmail = Null
    /\ remote \in InitRemotes /\ remote0 = remote /\ envFailed = FALSE
    /\ ioLog = <<>>
    /\ ui = 1 /\ di = 1 /\ scriptErr = FALSE /\ stdoutErr = FALSE
    /\ expWarn \in BOOLEAN
    /\ serviceAccountFile = File
    /\ FormIdle
    /\ ConcIdle
    /\ EnvIdle

ConcNext ==
    \/ Tick
    \/ \E p \in Callers : addDelegate_write(p)
    \/ \E p \in Callers : child_readParams(p)
    \/ \E p \in Callers : addDelegate_finally(p)

ConcSpec == ConcInit /\ [][ConcNext]_vars

----------------------------------------------------------------------------
(* Properties of the batch processors *)

\* C1: for every batch of N requests and every combination of per-request
\* outcomes, the batch processor returns exactly N results and result i is the
\* result of request i: while the loop runs one result stands for each request
\* already handled, in order, and the finished batch has one result per request.
C1_OrderPreservation ==
    /\ Len(results) = idx - 1
    /\ \A i \in 1..Len(results) : results[i].req = i
    /\ pc = "done" => Len(results) = Len(operations)

\* a finished batch of three with a client failure, a conflict and a success
C1_Witness ==
    /\ pc = "done" /\ Len(operations) = 3
    /\ \E i, j, k \in 1..3 :
         /\ results[i].message = "Failed to create Gmail client"
         /\ results[j].message = "already exists"
         /\ results[k].success

AddTwiceThenList(m, d) == <<Req(kAdd, m, d), Req(kAdd, m, d), Req(kList, m, Undefined)>>

\* C2: starting from a mailbox m without delegate d, with no external actor,
\* every call answered and nothing but the child's own output on its stderr,
\* Add(m,d) twice yields success=true and then
\* success=false "already exists", and the following List(m) contains d.
C2_AddIdempotence ==
    \A m \in Mailboxes, d \in Delegates :
        ( /\ pc = "done" /\ ~envFailed /\ ~expWarn /\ serviceAccountFile # Null
          /\ operations = AddTwiceThenList(m, d)
          /\ d \notin remote0[m] )
        => /\ results[1].success
           /\ ~results[2].success /\ results[2].message = "already exists"
           /\ results[3].success /\ d \in results[3].delegates

\* C3: Remove(m,d) executed when d is not a delegate of m, every call answered,
\* yields success=false "does not exist", and the delete endpoint is not called
\* for that request.
C3_RemoveAbsent ==
    \A m \in Mailboxes, d \in Delegates :
        ( /\ Len(results) >= 1 /\ ~envFailed /\ ~expWarn /\ serviceAccountFile # Null
          /\ operations[1] = Req(kRemove, m, d)
          /\ d \notin remote0[m] )
        => /\ ~results[1].success /\ results[1].message = "does not exist"
           /\ \A c \in 1..Len(calls) : ~(calls[c].ep = "delete" /\ calls[c].req = 1)

\* C4: with no external actor, whenever an Add(m,d) result has success=true, d is
\* a delegate of m in the remote state right after the request, and whenever a
\* Remove(m,d) result has success=true, d is not a delegate of m, however the
\* remote calls and the child's stdout / stderr turn out.
C4_SuccessReflected ==
    (pc = "dispatch" /\ results # <<>>) =>
        LET r == results[Len(results)]
        IN  /\ (r.success /\ r.operation = kAdd)
                => r.delegateEmail \in DelegatesOf(r.userEmail)
            /\ (r.success /\ r.operation = kRemove)
                => r.delegateEmail \notin DelegatesOf(r.userEmail)

\* the step in which a batch processor fails to construct the client of a request
ClientConstructionFails == pc = "client" /\ pc' # "list"

\* the step in which the child script started for a request fails to construct
\* the client of the request's only mailbox, and ends
ChildConstructionFails ==
    pc = "s_client" /\ pc' = "dispatch" /\ Len(userEmailArray) = 1

\* C5: when client construction fails for request i of a batch, result i has
\* success=false, the loop goes on with request i+1, and the step leaves to the
\* other requests exactly what they would have found had request i not touched
\* the remote service: the remote state and the batch are unchanged and no list,
\* create or delete call was made.
C5_FailureIsolation ==
    [][ (ClientConstructionFails \/ ChildConstructionFails) =>
          /\ Len(results') = Len(results) + 1
          /\ SubSeq(results', 1, Len(results)) = results
          /\ ~results'[Len(results')].success
          /\ results'[Len(results')].req = idx
          /\ idx' = idx + 1 /\ pc' = "dispatch"
          /\ remote' = remote
          /\ UNCHANGED <<operations, impl, expWarn>>
          /\ \/ calls' = calls
             \/ calls' = Append(calls, Call("probe", CurOp.userEmail, Undefined, "error")) ]_vars

\* C10: Add(m,d) executed when d is already a delegate of m, every call answered,
\* yields success=false with an "already exists" message, and the create endpoint
\* is not called for that request.
C10_AddExisting ==
    \A m \in Mailboxes, d \in Delegates :
        ( /\ Len(results) >= 1 /\ ~envFailed /\ ~expWarn /\ serviceAccountFile # Null
          /\ operations[1] = Req(kAdd, m, d)
          /\ d \in remote0[m] )
        => /\ ~results[1].success /\ results[1].message = "already exists"
           /\ \A c \in 1..Len(calls) : ~(calls[c].ep = "create" /\ calls[c].req = 1)

----------------------------------------------------------------------------
(* Properties of the form handler and the route *)

\* a request set holds a Remove request
HasRemove(reqs) == \E i \in 1..Len(reqs) : reqs[i].operation = kRemove

\* C6: a submission that holds at least one Remove request (a batch with a Remove,
\* or a single Remove) and is not confirmed sets the confirmation and ends there:
\* nothing is handed to onSubmit and no call is made to the remote service; a
\* request set with a Remove is handed to onSubmit only by a submission made
\* while the confirmation is set.
C6_ConfirmationGating ==
    [][ /\ (handleSubmit /\ ~MissingInformation /\ HasRemove(RequestSet)
              /\ ~showConfirmation)
           => /\ showConfirmation'
              /\ formData' = NoFormData
              /\ UNCHANGED <<calls, remote, pc, operations, results>>
        /\ (formData = NoFormData /\ formData' # NoFormData
              /\ HasRemove(formData'.requests))
           => showConfirmation ]_vars

\* a Remove, confirmed for the request set it was shown for, has reached the
\* delete endpoint
C6_Witness ==
    /\ formData # NoFormData
    /\ HasRemove(formData.requests) /\ formData.confirmed
    /\ shownFor = formData.requests
    /\ \E c \in 1..Len(calls) : calls[c].ep = "delete"

\* C7: a request set with a Remove is executed only if it is the request set the
\* confirmation was asked for: if the request set is changed between the two
\* submissions, the second one is not executed.
C7_NoStaleConfirmation ==
    (formData # NoFormData /\ HasRemove(formData.requests))
        => formData.requests = shownFor

\* C8: a submission whose request set holds no Remove request never asks for
\* confirmation: the confirmation is set only for a request set with a Remove.
C8_NoRemoveNoConfirmation ==
    showConfirmation => HasRemove(shownFor)

\* a line of the batch text: add or remove with three fields, list with two or
\* three
WellFormedLine(line) ==
    LET f == MapTrim(Split(line, ","))
    IN  \/ f[1] \in {kAdd, kRemove} /\ Len(f) = 3
        \/ f[1] = kList /\ Len(f) \in {2, 3}

\* every non-blank line of the batch text is well formed
WellFormedText(text) ==
    LET ls == FilterNonBlank(Split(text, "\n"))
    IN  \A i \in 1..Len(ls) : WellFormedLine(ls[i])

\* C9: batch parsing is all-or-nothing: when a non-blank line of the batch text
\* has not the expected number of fields, or a kind other than add, remove, list,
\* no call is made to the remote service for that batch.
C9_ParseAllOrNothing ==
    (formData # NoFormData /\ formData.hasOperations /\ ~WellFormedText(formData.text))
        => calls = <<>>

----------------------------------------------------------------------------
(* Properties of the calls made to the remote service *)

\* the create or delete call of the current request is answered with an error
MutationFails ==
    /\ pc \in {"mutate", "s_mutate"}
    /\ Len(calls') = Len(calls) + 1
    /\ calls'[Len(calls')].out = "error"

\* C11: when the create or delete call of a request returns an error after the
\* guard passed, the request's result has success=false and the batch goes on
\* with the next request: the error is a result, not a fault.
C11_MutationErrorReported ==
    [][ MutationFails =>
          /\ Len(results') = Len(results) + 1
          /\ SubSeq(results', 1, Len(results)) = results
          /\ ~results'[Len(results')].success
          /\ results'[Len(results')].req = idx
          /\ idx' = idx + 1 /\ pc' = "dispatch" ]_vars

\* the list call made for request i was answered with an error
ListFailedFor(i) ==
    \E c \in 1..Len(calls) :
        calls[c].req = i /\ calls[c].ep = "list" /\ calls[c].out = "error"

\* C12: when the list call made before the mutation of an Add or Remove request
\* fails, the request's result has success=false and a message other than the
\* "already exists" and "does not exist" of a conflict.
C12_ExistenceCheckFailure ==
    \A i \in 1..Len(results) :
        ( /\ operations[results[i].req].operation \in {kAdd, kRemove}
          /\ ListFailedFor(results[i].req) )
        => /\ ~results[i].success
           /\ results[i].message \notin {"already exists", "does not exist"}

\* C13: client construction probes the identity: a list, create or delete call is
\* made for a request only after a probe made for that request was answered ok, so
\* that a request whose identity is refused makes none of these calls.
C13_EagerProbe ==
    \A c \in 1..Len(calls) :
        calls[c].ep \in {"list", "create", "delete"}
        => \E p \in 1..(c - 1) :
               /\ calls[p].ep = "probe" /\ calls[p].req = calls[c].req
               /\ calls[p].out = "ok"

\* C14: within one batch the requests are processed in input order and one at a
\* time: the calls are logged in the order of their requests, a call is made for
\* request i only when the results of the requests before i are there, and while
\* a request is being processed no result stands for it.
C14_Sequential ==
    /\ \A c \in 1..Len(calls) :
         calls[c].req <= Len(results) + 1 /\ calls[c].req <= Len(operations)
    /\ \A c, e \in 1..Len(calls) : c < e => calls[c].req <= calls[e].req
    /\ pc \notin {"dispatch", "done"} => Len(results) = idx - 1

\* a finished batch of three in which every request made a call
C14_Witness ==
    /\ pc = "done" /\ Len(operations) = 3 /\ Len(results) = 3
    /\ \A i \in 1..3 : \E c \in 1..Len(calls) : calls[c].req = i

\* C18: no automatic retries: a call that failed is never made a second time
\* for the same request.
C18_NoRetry ==
    \A c, e \in 1..Len(calls) :
        (c < e /\ calls[c].out = "error")
        => ~( /\ calls[e].req = calls[c].req /\ calls[e].ep = calls[c].ep
              /\ calls[e].user = calls[c].user
              /\ calls[e].delegate = calls[c].delegate )

\* a finished batch in which a probe, a list call and a create call failed
C18_Witness ==
    /\ pc = "done"
    /\ \A ep \in {"probe", "list", "create"} :
         \E c \in 1..Len(calls) : calls[c].ep = ep /\ calls[c].out = "error"

\* C19: every Add or Remove that reaches the remote service carries a non-empty
\* delegateEmail: no create or delete call is made with a missing or empty one.
C19_DelegateRequired ==
    \A c \in 1..Len(calls) :
        calls[c].ep \in {"create", "delete"} => Truthy(calls[c].delegate)

\* C20: each result identifies the request at its position: result i carries the
\* kind and the mailbox owner of request i and, for add and remove, its delegate
\* email, on every outcome.
C20_ResultIdentifiesRequest ==
    \A i \in 1..Len(results) :
        /\ results[i].operation = operations[i].operation
        /\ results[i].userEmail = operations[i].userEmail
        /\ operations[i].operation \in {kAdd, kRemove}
              => results[i].delegateEmail = operations[i].delegateEmail

----------------------------------------------------------------------------
(* Properties of the temporary files *)

C16_NoSharedState ==
    \A p \in Callers :
        /\ proc[p].pc = "exec"
              => proc[p].path \in DOMAIN tmp /\ tmp[proc[p].path] = p
        /\ proc[p].got \in {0, p}

----------------------------------------------------------------------------
(* Termination *)

\* C17: a remote call that never returns does not hang the batch: whether or not
\* the remote service answers, the batch eventually produces its full result.
C17_NoHang == <>(pc = "done" /\ Len(results) = Len(operations))

----------------------------------------------------------------------------
(* Properties of the guard, the clients and the runs *)

\* the steps made for the request the loop stands at
InRequest == pc \in {"client", "list", "mutate", "exec", "s_client", "s_list", "s_mutate"}

\* the calls a step adds to the log
NewCalls == { calls'[i] : i \in (Len(calls) + 1)..Len(calls') }

\* C21: a list request never mutates: no step made for a request of kind list
\* changes the delegate set of any mailbox of the remote service or calls the
\* create or delete endpoint, whether its list call succeeds or fails.
C21_ListNeverMutates ==
    [][(InRequest /\ CurOp.operation = kList)
          => (remote' = remote /\ \A c \in NewCalls : c.ep \in {"probe", "list"})]_vars

\* a batch on a mailbox with a delegate has had the list call of one list request
\* answered and the list call of another refused
C21_Witness ==
    /\ remote0[M1] # {}
    /\ \E i, j \in 1..Len(calls) :
         /\ calls[i].ep = "list" /\ operations[calls[i].req].operation = kList
         /\ calls[i].out = "ok"
         /\ calls[j].ep = "list" /\ operations[calls[j].req].operation = kList
         /\ calls[j].out = "error"
         /\ remote = remote0

----------------------------------------------------------------------------
(* Properties of the parser *)

\* the request a line of fields f stands for
RequestOf(f) ==
    [operation |-> f[1], userEmail |-> f[2],
     delegateEmail |-> IF Len(f) >= 3 THEN f[3] ELSE Undefined]

\* one request per non-blank line, in line order
RECURSIVE RequestsOf(_)
RequestsOf(ls) ==
    IF ls = <<>> THEN <<>>
    ELSE IF Head(ls).f = <<>> THEN RequestsOf(Tail(ls))
    ELSE <<RequestOf(Head(ls).f)>> \o RequestsOf(Tail(ls))

\* C22: for every batch text whose non-blank lines are well formed, the parser
\* returns one request per non-blank line, in line order, whose kind, mailbox
\* owner and delegate email are the comma-separated fields of the line with the
\* white space around them trimmed; blank and white-space-only lines give no
\* request.
C22_ParserCorrect ==
    (parsed.done /\ WellFormedText(TypedText)) => parsed.operations = RequestsOf(lines)

\* a text of three lines has been parsed: a padded line, a blank line of white
\* space, an unpadded line, and two requests came out
C22_Witness ==
    /\ parsed.done /\ WellFormedText(TypedText)
    /\ Len(lines) = 3
    /\ lines[1].f # <<>> /\ Head(lines[1].text) = " "
    /\ lines[2].f = <<>> /\ lines[2].text # <<>>
    /\ lines[3].f # <<>> /\ Head(lines[3].text) # " "
    /\ Len(parsed.operations) = 2

----------------------------------------------------------------------------
(* Properties of the check before the act *)

\* C23: within one batch and with no external actor, the create endpoint is
\* never called for a delegate that is on the mailbox at the time of the call,
\* and the delete endpoint is never called for a delegate that is not, also
\* when the batch holds several requests for the same mailbox and delegate.
C23_CheckThenActClosed ==
    [][\A c \in NewCalls :
          /\ c.ep = "create" => c.delegate \notin DelegatesOf(c.user)
          /\ c.ep = "delete" => c.delegate \in DelegatesOf(c.user)]_vars

\* C28: when the list call made before the mutation of an add or remove request
\* fails, no create or delete call is issued for that request: every create or
\* delete call in the log comes after a list call of the same request, for the
\* same mailbox, that was answered.
C28_NoMutationWithoutCheck ==
    \A k \in 1..Len(calls) :
        calls[k].ep \in {"create", "delete"}
            => \E l \in 1..(k - 1) :
                   /\ calls[l].ep = "list" /\ calls[l].out = "ok"
                   /\ calls[l].req = calls[k].req /\ calls[l].user = calls[k].user

\* C24: when an external actor (or a concurrent batch) adds or removes the same
\* delegate on the same mailbox between the list check of a request and its
\* create / delete call, the result of the request is a failure; so two
\* concurrent adds of the same delegate never both report success.  The remote
\* service is taken to refuse the call the race has made conflicting (a create
\* of a delegate that is there, a delete of one that is not).
RaceRefused ==
    \A k \in 1..Len(calls) :
        (calls[k].req \in raced /\ calls[k].ep \in {"create", "delete"})
            => calls[k].out = "error"

C24_RaceSurfaced ==
    RaceRefused => \A i \in 1..Len(results) : results[i].req \in raced => ~results[i].success

----------------------------------------------------------------------------
(* Properties of a cancelled batch *)

\* C25: after an in-flight batch is cancelled (the caller disconnects), no
\* remote call is issued for a request of the batch that had not started yet.
\* (No processor undoes a mutation: nothing but delegates.create and
\* delegates.delete of the request at hand changes the remote service.)
C25_CancellationStops ==
    cancelledAt >= 0 => \A k \in 1..Len(calls) : calls[k].req <= cancelledAt

----------------------------------------------------------------------------
(* Properties of the clients *)

\* C26: every remote call made for a request with mailbox owner m goes through
\* a client that impersonates m: a client built for one mailbox owner is never
\* used for a request of another mailbox owner of the same batch.
C26_ClientPerMailbox ==
    \A k \in 1..Len(calls) : calls[k].user = operations[calls[k].req].userEmail

\* a batch with requests for two mailbox owners has ended, and calls were made
\* for a request of either owner, one after the other
C26_Witness ==
    /\ pc = "done"
    /\ \E i, j \in 1..Len(calls) :
         /\ i < j /\ calls[i].req < calls[j].req
         /\ calls[i].ep \in {"list", "create"} /\ calls[j].ep \in {"list", "create"}
         /\ operations[calls[i].req].userEmail = M1
         /\ operations[calls[j].req].userEmail = M2

----------------------------------------------------------------------------
(* Properties of two runs of one batch *)

\* both runs have ended
BothRunsDone == run1 # NoRun /\ pc = "done"

\* the remote service answered each call of the second run as it answered the
\* same call (endpoint, mailbox, delegate, request) of the first run
SameAnswers ==
    \A i \in 1..Len(calls), j \in 1..Len(run1.calls) :
        ( /\ calls[i].ep = run1.calls[j].ep /\ calls[i].user = run1.calls[j].user
          /\ calls[i].delegate = run1.calls[j].delegate
          /\ calls[i].req = run1.calls[j].req )
            => calls[i].out = run1.calls[j].out

\* the same success flags, position by position
SameFlags ==
    /\ Len(results) = Len(run1.results)
    /\ \A i \in 1..Len(results) : results[i].success = run1.results[i].success

\* the same success flags and messages, position by position
SameResults ==
    /\ SameFlags
    /\ \A i \in 1..Len(results) : results[i].message = run1.results[i].message

NothingRefused ==
    /\ serviceAccountFile # Null
    /\ ioLog = <<>> /\ run1.ioLog = <<>>
    /\ \A k \in 1..Len(calls) : calls[k].out = "ok"
    /\ \A k \in 1..Len(run1.calls) : run1.calls[k].out = "ok"

C30_ImplementationsEquivalent ==
    (BothRunsDone /\ run1.impl # impl /\ SameAnswers /\ NothingRefused)
        => (SameFlags /\ remote = run1.remote)

----------------------------------------------------------------------------
(* Properties of the confirmation *)

\* C29: one confirmation authorizes at most one executed submission: once a
\* submission that passed the gate on a confirmation is over (it was sent, it
\* failed while being sent, or it was stopped because the service account file
\* was missing), the confirmation state is back to unconfirmed, so that the
\* next submission with a remove stops at the gate again.
C29_ConfirmationSpent ==
    (~isSubmitting /\ confirmationUsed) => ~showConfirmation

----------------------------------------------------------------------------
(* Properties of the target of a mutation *)

\* the create and delete calls made for request r
MutationsOf(r) ==
    { k \in 1..Len(calls) : calls[k].req = r /\ calls[k].ep \in {"create", "delete"} }

\* C31: each add or remove request causes at most one create or delete call,
\* and that call targets exactly the mailbox owner and the delegate email of the
\* request; a request never mutates another mailbox or another delegate, also
\* when its email fields go through the comma-splitting scripts.
C31_OwnPairOnly ==
    \A r \in 1..Len(operations) :
        /\ Cardinality(MutationsOf(r)) <= 1
        /\ \A k \in MutationsOf(r) :
              /\ calls[k].user = operations[r].userEmail
              /\ calls[k].delegate = operations[r].delegateEmail

----------------------------------------------------------------------------
(* Properties of the endpoints *)

\* the operation a submission without an operations field stands for
SubmittedOperation ==
    IF Truthy(formData.operation) THEN formData.operation ELSE kList

\* a single-operation submission that lacks the file, the userEmail, the
\* delegateEmail of an add or remove, or a known operation
InvalidSubmission ==
    /\ formData # NoFormData /\ ~formData.hasOperations
    /\ \/ formData.serviceAccount = Null
       \/ ~Truthy(formData.userEmail)
       \/ SubmittedOperation \in {kAdd, kRemove} /\ ~Truthy(formData.delegateEmail)
       \/ SubmittedOperation \notin {kList, kAdd, kRemove}

\* a single-operation submission without an operation field
NoOperationField ==
    formData # NoFormData /\ ~formData.hasOperations /\ ~Truthy(formData.operation)

\* C32: the single-operation endpoint rejects an invalid submission before any
\* remote call: it makes no remote call and its response has success false and
\* status 400; a submission without an operation field is a list and never
\* mutates.
C32_InvalidRejected ==
    /\ InvalidSubmission =>
          /\ calls = <<>>
          /\ response # NoResponse =>
                /\ "success" \in DOMAIN response
                /\ response.success = FALSE
                /\ response.status = 400
    /\ NoOperationField =>
          /\ remote = remote0
          /\ \A k \in 1..Len(calls) : calls[k].ep \notin {"create", "delete"}

\* the batch endpoint has answered a submission with an operations field
BatchAnswered ==
    /\ impl = "script" /\ formData # NoFormData /\ formData.hasOperations
    /\ response # NoResponse

\* C34: the batch endpoint reports the outcomes of the items only in the results:
\* when the operations list was parsed and processed the response has success
\* true and status 200, even if every item failed; success is false only when
\* the request failed before or outside the processing of the items.
C34_TopLevelSuccess ==
    BatchAnswered =>
        /\ ( /\ formData.serviceAccount # Null /\ "badJson" \notin DOMAIN formData
              /\ Len(results) = Len(formData.operations) )
              => response = Response(200, TRUE)
        /\ response.success = FALSE => (results = <<>> /\ calls = <<>>)

----------------------------------------------------------------------------
(* Properties of the submissions in flight *)

\* C33: the form handler has at most one submission in flight: isSubmitting is
\* true exactly while a submission is being sent, and no second submission is
\* sent by a handleSubmit invoked while one is in flight.
C33_OneInFlight ==
    /\ isSubmitting <=> formData # NoFormData
    /\ resent.sent = 0

====
